---------------------------- MODULE Spec2Model ----------------------------
(***************************************************************************)
(* Model of the two fixture modules of the repository:                     *)
(*   Module A  src/test_files/sample.py  simple_function, Calculator(name),*)
(*             ScientificCalculator(Calculator)                            *)
(*   Module B  src/test_files/test.py    Calculator() with a running value,*)
(*             standalone_function, another_function                       *)
(* The state is the heap of live instances of both modules plus the record *)
(* of the call that was made last (callee, receiver, arguments, outcome).  *)
(* Numbers are Python ints (unbounded, no overflow).                       *)
(***************************************************************************)
EXTENDS Integers, Sequences, FiniteSets

VARIABLES
    objsA,   \* Module A instances, in creation order: [cls, name]
    objsB,   \* Module B instances, in creation order: [value]
    last,    \* the call made last: [op, self, args, ret]
    hist     \* the calls made so far (recorded under SpecHist only)

vars == <<objsA, objsB, last, hist>>

---------------------------------------------------------------------------
(* Bounds of the model and the inputs the callers draw from.               *)

MaxA == 1        \* live Module A instances (Spec)
MaxB == 1        \* live Module B instances (Spec)
MaxAbs == 3      \* |value| of a Module B instance (Spec)
MaxHistB == 2    \* live Module B instances (SpecHist)
MaxCalls == 6    \* length of the recorded call history (SpecHist)

Names == {"basic", "sci"}
ClassesA == {"Calculator", "ScientificCalculator"}
Nums == {-1, 2, 3}
ArgLists == {<<x>> : x \in Nums} \cup {<<x, y>> : x \in Nums, y \in Nums}
PowBases == {-3, 0, 2}
PowExps == {0, 1, 3, 10}
HistNums == {-3, 2, 5}

Abs(n) == IF n < 0 THEN -n ELSE n

---------------------------------------------------------------------------
(* Outcomes of a call.                                                     *)

None == [tag |-> "None", val |-> 0]
Ok(n) == [tag |-> "value", val |-> n]
Raise(e) == [tag |-> e, val |-> 0]

NoCall == [op |-> "none", self |-> 0, args |-> <<>>, ret |-> None]

---------------------------------------------------------------------------
(* Module A, sample.py                                                     *)

\* def simple_function(x, y): return x + y
simple_function(x, y) == x + y

\* a constructor that ignores its argument
A_Calculator_init_const(cls, name) == [cls |-> cls, name |-> "basic"]

\* Calculator.__init__(self, name): self.name = name
A_Calculator_init(cls, name) == [cls |-> cls, name |-> name]

\* an add that multiplies
A_Calculator_add_mul(self, a, b) == a * b

\* Calculator.add(self, a, b): return a + b
A_Calculator_add(self, a, b) == a + b

\* a subtract with its operands swapped
A_Calculator_subtract_swapped(self, a, b) == b - a

\* Calculator.subtract(self, a, b): return a - b
A_Calculator_subtract(self, a, b) == a - b

\* the int ** int of a non-negative exponent (square and multiply)
RECURSIVE IntPow(_, _)
IntPow(base, exp) ==
    IF exp = 0 THEN 1
    ELSE IF exp % 2 = 1 THEN base * IntPow(base, exp - 1)
    ELSE LET h == IntPow(base, exp \div 2) IN h * h

\* a power that multiplies base by exp
ScientificCalculator_power_mul(self, base, exp) == base * exp

\* ScientificCalculator.power(self, base, exp): return base ** exp
ScientificCalculator_power(self, base, exp) == IntPow(base, exp)

\* class statements: the attributes each class body defines, and its base
Defines(cls) ==
    CASE cls = "Calculator" -> {"__init__", "add", "subtract"}
      [] cls = "ScientificCalculator" -> {"power"}
      [] OTHER -> {}

BaseOf(cls) == IF cls = "ScientificCalculator" THEN "Calculator" ELSE "object"

\* attribute lookup along the method resolution order
RECURSIVE Lookup(_, _)
Lookup(cls, m) ==
    IF cls = "object" THEN "none"
    ELSE IF m \in Defines(cls) THEN cls
    ELSE Lookup(BaseOf(cls), m)

\* a call that looks the method up in the instance's own class only
A_Call_own(obj, m, args) ==
    IF m \notin Defines(obj.cls) THEN Raise("AttributeError")
    ELSE IF Len(args) # 2 THEN Raise("TypeError")
    ELSE CASE m = "add" -> Ok(A_Calculator_add(obj, args[1], args[2]))
           [] m = "subtract" -> Ok(A_Calculator_subtract(obj, args[1], args[2]))
           [] m = "power" -> Ok(ScientificCalculator_power(obj, args[1], args[2]))

\* obj.m(*args) on a Module A instance: the outcome of the call
A_Call(obj, m, args) ==
    LET owner == Lookup(obj.cls, m) IN
    IF owner = "none" THEN Raise("AttributeError")
    ELSE IF Len(args) # 2 THEN Raise("TypeError")
    ELSE CASE owner = "Calculator" /\ m = "add" ->
                  Ok(A_Calculator_add(obj, args[1], args[2]))
           [] owner = "Calculator" /\ m = "subtract" ->
                  Ok(A_Calculator_subtract(obj, args[1], args[2]))
           [] owner = "ScientificCalculator" /\ m = "power" ->
                  Ok(ScientificCalculator_power(obj, args[1], args[2]))

\* c = Calculator(name)  or  c = ScientificCalculator(name)
A_new(cls, name) ==
    /\ Lookup(cls, "__init__") = "Calculator"
    /\ objsA' = Append(objsA, A_Calculator_init(cls, name))
    /\ last' = [op |-> "A.__init__", self |-> Len(objsA) + 1,
                args |-> <<name>>, ret |-> None]
    /\ UNCHANGED objsB

\* objsA[i].add(*args)
A_add(i, args) ==
    /\ last' = [op |-> "A.add", self |-> i, args |-> args,
                ret |-> A_Call(objsA[i], "add", args)]
    /\ UNCHANGED <<objsA, objsB>>

\* objsA[i].subtract(*args)
A_subtract(i, args) ==
    /\ last' = [op |-> "A.subtract", self |-> i, args |-> args,
                ret |-> A_Call(objsA[i], "subtract", args)]
    /\ UNCHANGED <<objsA, objsB>>

\* objsA[i].power(*args)
A_power(i, args) ==
    /\ last' = [op |-> "A.power", self |-> i, args |-> args,
                ret |-> A_Call(objsA[i], "power", args)]
    /\ UNCHANGED <<objsA, objsB>>

\* simple_function(*args)
A_simple_function(args) ==
    /\ last' = [op |-> "simple_function", self |-> 0, args |-> args,
                ret |-> IF Len(args) # 2 THEN Raise("TypeError")
                        ELSE Ok(simple_function(args[1], args[2]))]
    /\ UNCHANGED <<objsA, objsB>>

---------------------------------------------------------------------------
(* Module B, test.py                                                       *)

\* a constructor that starts from 1
B_Calculator_init_one == [value |-> 1]

\* Calculator.__init__(self): self.value = 0
B_Calculator_init == [value |-> 0]

\* an add that returns the value read before the update
B_Calculator_add_stale(self, x) ==
    [obj |-> [self EXCEPT !.value = self.value + x], ret |-> self.value]

\* Calculator.add(self, x): self.value += x; return self.value
B_Calculator_add(self, x) ==
    LET updated == [self EXCEPT !.value = self.value + x]
    IN  [obj |-> updated, ret |-> updated.value]

\* a subtract that adds
B_Calculator_subtract_adds(self, x) ==
    LET updated == [self EXCEPT !.value = self.value + x]
    IN  [obj |-> updated, ret |-> updated.value]

\* Calculator.subtract(self, x): self.value -= x; return self.value
B_Calculator_subtract(self, x) ==
    LET updated == [self EXCEPT !.value = self.value - x]
    IN  [obj |-> updated, ret |-> updated.value]

\* a standalone_function that subtracts
standalone_function_sub(a, b) == a - b

\* def standalone_function(a, b): return a + b
standalone_function(a, b) == a + b

\* c = Calculator()
B_new ==
    /\ objsB' = Append(objsB, B_Calculator_init)
    /\ last' = [op |-> "B.__init__", self |-> Len(objsB) + 1,
                args |-> <<>>, ret |-> None]
    /\ UNCHANGED objsA

\* objsB[i].add(*args): the signature binds exactly one argument
B_add(i, args) ==
    /\ IF Len(args) # 1
       THEN /\ objsB' = objsB
            /\ last' = [op |-> "B.add", self |-> i, args |-> args,
                        ret |-> Raise("TypeError")]
       ELSE LET r == B_Calculator_add(objsB[i], args[1]) IN
            /\ objsB' = [objsB EXCEPT ![i] = r.obj]
            /\ last' = [op |-> "B.add", self |-> i, args |-> args,
                        ret |-> Ok(r.ret)]
    /\ UNCHANGED objsA

\* objsB[i].subtract(*args): the signature binds exactly one argument
B_subtract(i, args) ==
    /\ IF Len(args) # 1
       THEN /\ objsB' = objsB
            /\ last' = [op |-> "B.subtract", self |-> i, args |-> args,
                        ret |-> Raise("TypeError")]
       ELSE LET r == B_Calculator_subtract(objsB[i], args[1]) IN
            /\ objsB' = [objsB EXCEPT ![i] = r.obj]
            /\ last' = [op |-> "B.subtract", self |-> i, args |-> args,
                        ret |-> Ok(r.ret)]
    /\ UNCHANGED objsA

\* standalone_function(*args)
B_standalone_function(args) ==
    /\ last' = [op |-> "standalone_function", self |-> 0, args |-> args,
                ret |-> IF Len(args) # 2 THEN Raise("TypeError")
                        ELSE Ok(standalone_function(args[1], args[2]))]
    /\ UNCHANGED <<objsA, objsB>>

\* an another_function that resets every accumulator
another_function_reset ==
    /\ last' = [op |-> "another_function", self |-> 0, args |-> <<>>,
                ret |-> None]
    /\ objsB' = [i \in DOMAIN objsB |-> [value |-> 0]]
    /\ UNCHANGED objsA

\* another_function(): pass
another_function ==
    /\ last' = [op |-> "another_function", self |-> 0, args |-> <<>>,
                ret |-> None]
    /\ UNCHANGED <<objsA, objsB>>

---------------------------------------------------------------------------
(* Spec: a host program that uses both modules.                            *)

Init ==
    /\ objsA = <<>>
    /\ objsB = <<>>
    /\ last = NoCall
    /\ hist = <<>>

InRange == \A i \in DOMAIN objsB' : Abs(objsB'[i].value) <= MaxAbs

NewA ==
    /\ Len(objsA) < MaxA
    /\ \E cls \in ClassesA, name \in Names : A_new(cls, name)
    /\ UNCHANGED hist

CallAAdd ==
    /\ \E i \in DOMAIN objsA, args \in ArgLists : A_add(i, args)
    /\ UNCHANGED hist

CallASubtract ==
    /\ \E i \in DOMAIN objsA, args \in ArgLists : A_subtract(i, args)
    /\ UNCHANGED hist

CallAPower ==
    /\ \E i \in DOMAIN objsA, base \in PowBases, exp \in PowExps :
           A_power(i, <<base, exp>>)
    /\ UNCHANGED hist

CallSimpleFunction ==
    /\ \E args \in ArgLists : A_simple_function(args)
    /\ UNCHANGED hist

NewB ==
    /\ Len(objsB) < MaxB
    /\ B_new
    /\ UNCHANGED hist

CallBAdd ==
    /\ \E i \in DOMAIN objsB, args \in ArgLists : B_add(i, args) /\ InRange
    /\ UNCHANGED hist

CallBSubtract ==
    /\ \E i \in DOMAIN objsB, args \in ArgLists : B_subtract(i, args) /\ InRange
    /\ UNCHANGED hist

CallStandaloneFunction ==
    /\ \E args \in ArgLists : B_standalone_function(args)
    /\ UNCHANGED hist

CallAnotherFunction ==
    /\ another_function
    /\ UNCHANGED hist

Next ==
    \/ NewA
    \/ CallAAdd
    \/ CallASubtract
    \/ CallAPower
    \/ CallSimpleFunction
    \/ NewB
    \/ CallBAdd
    \/ CallBSubtract
    \/ CallStandaloneFunction
    \/ CallAnotherFunction

Spec == Init /\ [][Next]_vars

---------------------------------------------------------------------------
(* SpecHist: a host program that uses Module B, every call recorded.       *)

Recorded ==
    /\ Len(hist) < MaxCalls
    /\ hist' = Append(hist, last')

HistNewB ==
    /\ Len(objsB) < MaxHistB
    /\ B_new
    /\ Recorded

HistBAdd ==
    /\ \E i \in DOMAIN objsB, x \in HistNums : B_add(i, <<x>>)
    /\ Recorded

HistBSubtract ==
    /\ \E i \in DOMAIN objsB, x \in HistNums : B_subtract(i, <<x>>)
    /\ Recorded

HistStandaloneFunction ==
    /\ B_standalone_function(<<2, 3>>)
    /\ Recorded

HistAnotherFunction ==
    /\ another_function
    /\ Recorded

NextHist ==
    \/ HistNewB
    \/ HistBAdd
    \/ HistBSubtract
    \/ HistStandaloneFunction
    \/ HistAnotherFunction

SpecHist == Init /\ [][NextHist]_vars

---------------------------------------------------------------------------
(* Properties.                                                             *)

\* the calls recorded on Module B instance i, oldest first
CallsOn(i) == SelectSeq(hist, LAMBDA c : c.self = i)

\* the sum of the arguments of the recorded calls of method op on instance i
RECURSIVE SumArgs(_, _, _)
SumArgs(h, i, op) ==
    IF h = <<>> THEN 0
    ELSE (IF Head(h).self = i /\ Head(h).op = op THEN Head(h).args[1] ELSE 0)
         + SumArgs(Tail(h), i, op)

\* base multiplied by itself n times
RECURSIVE RepeatedProduct(_, _)
RepeatedProduct(base, n) ==
    IF n = 0 THEN 1 ELSE base * RepeatedProduct(base, n - 1)

\* C1: on the accumulator Calculator (test.py), add(x) leaves value = v + x
\* and subtract(x) leaves value = v - x, where v is the value stored before
\* the call, and the call returns the value stored after it.
C1_AddSubtractUpdateAndReturn ==
    [][ /\ (last'.op = "B.add" /\ Len(last'.args) = 1) =>
               /\ objsB'[last'.self].value
                      = objsB[last'.self].value + last'.args[1]
               /\ last'.ret = Ok(objsB'[last'.self].value)
        /\ (last'.op = "B.subtract" /\ Len(last'.args) = 1) =>
               /\ objsB'[last'.self].value
                      = objsB[last'.self].value - last'.args[1]
               /\ last'.ret = Ok(objsB'[last'.self].value)
      ]_vars

\* C1 witness: an add on an instance whose value was not 0 has returned the
\* updated value, which differs from the argument.
C1_Witness ==
    /\ last.op = "B.add"
    /\ Len(last.args) = 1
    /\ last.ret = Ok(objsB[last.self].value)
    /\ objsB[last.self].value # last.args[1]

\* C2: a new accumulator Calculator has value 0; add(5) as its first call
\* returns 5 and leaves 5; subtract(2) as its second call returns 3 and
\* leaves 3.
C2_FreshAddFiveSubtractTwo ==
    \A i \in DOMAIN objsB :
        LET cs == CallsOn(i) IN
        /\ Len(cs) >= 1
        /\ cs[1].op = "B.__init__"
        /\ Len(cs) = 1 => objsB[i].value = 0
        /\ (Len(cs) >= 2 /\ cs[2].op = "B.add" /\ cs[2].args = <<5>>) =>
               /\ cs[2].ret = Ok(5)
               /\ Len(cs) = 2 => objsB[i].value = 5
               /\ (Len(cs) >= 3 /\ cs[3].op = "B.subtract" /\ cs[3].args = <<2>>) =>
                      /\ cs[3].ret = Ok(3)
                      /\ Len(cs) = 3 => objsB[i].value = 3

\* C2 witness: an instance on which exactly add(5) and subtract(2) were
\* called since construction.
C2_Witness ==
    \E i \in DOMAIN objsB :
        LET cs == CallsOn(i) IN
        /\ Len(cs) = 3
        /\ cs[2].op = "B.add" /\ cs[2].args = <<5>>
        /\ cs[3].op = "B.subtract" /\ cs[3].args = <<2>>
        /\ objsB[i].value = 3

\* C3: on a Module A calculator add(a, b) returns a + b and subtract(a, b)
\* returns a - b, whatever the instance's name and the calls made before.
C3_ModuleAAddSubtract ==
    /\ (last.op = "A.add" /\ Len(last.args) = 2) =>
           last.ret = Ok(last.args[1] + last.args[2])
    /\ (last.op = "A.subtract" /\ Len(last.args) = 2) =>
           last.ret = Ok(last.args[1] - last.args[2])

\* C3 witness: subtract(2, 3) has returned -1 on an instance named "sci".
C3_Witness ==
    /\ last.op = "A.subtract"
    /\ last.args = <<2, 3>>
    /\ last.ret = Ok(-1)
    /\ objsA[last.self].name = "sci"

\* C4 as stated: in both modules add(a, b) = a + b and subtract(a, b) = a - b
\* for the calculator type.
C4_Original ==
    /\ (last.op \in {"A.add", "B.add"} /\ Len(last.args) = 2) =>
           last.ret = Ok(last.args[1] + last.args[2])
    /\ (last.op \in {"A.subtract", "B.subtract"} /\ Len(last.args) = 2) =>
           last.ret = Ok(last.args[1] - last.args[2])

\* C4 as amended: add(a, b) = a + b and subtract(a, b) = a - b hold for the
\* calculator types of Module A; the Calculator of Module B takes one
\* argument: add(a, b) and subtract(a, b) raise TypeError and leave every
\* value unchanged, while add(x) returns value + x and subtract(x) returns
\* value - x.
C4_Amended ==
    [][ /\ (last'.op = "A.add" /\ Len(last'.args) = 2) =>
               last'.ret = Ok(last'.args[1] + last'.args[2])
        /\ (last'.op = "A.subtract" /\ Len(last'.args) = 2) =>
               last'.ret = Ok(last'.args[1] - last'.args[2])
        /\ (last'.op \in {"B.add", "B.subtract"} /\ Len(last'.args) = 2) =>
               /\ last'.ret = Raise("TypeError")
               /\ objsB' = objsB
        /\ (last'.op = "B.add" /\ Len(last'.args) = 1) =>
               last'.ret = Ok(objsB[last'.self].value + last'.args[1])
        /\ (last'.op = "B.subtract" /\ Len(last'.args) = 1) =>
               last'.ret = Ok(objsB[last'.self].value - last'.args[1])
      ]_vars

\* C4 witness: a two-argument add on a Module B Calculator has raised.
C4_Witness ==
    /\ last.op = "B.add"
    /\ Len(last.args) = 2
    /\ last.ret.tag = "TypeError"

\* C5: power(base, exp) on a ScientificCalculator returns base multiplied by
\* itself exp times for every exp >= 0, with power(base, 0) = 1 and
\* power(2, 10) = 1024.
C5_Power ==
    (last.op = "A.power" /\ objsA[last.self].cls = "ScientificCalculator") =>
        /\ last.ret = Ok(RepeatedProduct(last.args[1], last.args[2]))
        /\ last.args[2] = 0 => last.ret = Ok(1)
        /\ last.args = <<2, 10>> => last.ret = Ok(1024)

\* C5 witness: power(2, 10) has returned 1024.
C5_Witness ==
    /\ last.op = "A.power"
    /\ last.args = <<2, 10>>
    /\ last.ret = Ok(1024)

\* C6: add and subtract called on a ScientificCalculator are found (no
\* AttributeError) and yield what the same call yields on a base Calculator.
C6_InheritedAddSubtract ==
    (/\ last.op \in {"A.add", "A.subtract"}
     /\ objsA[last.self].cls = "ScientificCalculator") =>
        /\ last.ret.tag # "AttributeError"
        /\ last.ret = A_Call(A_Calculator_init("Calculator", objsA[last.self].name),
                             IF last.op = "A.add" THEN "add" ELSE "subtract",
                             last.args)

\* C6 witness: add(2, 3) has returned a value on a ScientificCalculator.
C6_Witness ==
    /\ last.op = "A.add"
    /\ objsA[last.self].cls = "ScientificCalculator"
    /\ last.args = <<2, 3>>
    /\ last.ret.tag = "value"

\* C7: the name of a Module A calculator is the constructor's argument, and
\* no later call changes the name of an existing instance.
C7_NameFixed ==
    [][ /\ last'.op = "A.__init__" =>
               objsA'[last'.self].name = last'.args[1]
        /\ \A i \in DOMAIN objsA :
               /\ i \in DOMAIN objsA'
               /\ objsA'[i].name = objsA[i].name
      ]_vars

\* C7 witness: a method has been called on an instance named "sci".
C7_Witness ==
    /\ last.op \in {"A.add", "A.subtract", "A.power"}
    /\ last.ret.tag = "value"
    /\ objsA[last.self].name = "sci"

\* C8: standalone_function(a, b) and simple_function(x, y) return the sum of
\* their arguments and leave every calculator instance unchanged.
C8_FreeFunctionsPure ==
    [][ (/\ last'.op \in {"standalone_function", "simple_function"}
         /\ Len(last'.args) = 2) =>
            /\ last'.ret = Ok(last'.args[1] + last'.args[2])
            /\ objsA' = objsA
            /\ objsB' = objsB
      ]_vars

\* C8 witness: standalone_function(2, 3) has returned 5 while instances of
\* both modules exist, the accumulator holding a value other than 0.
C8_Witness ==
    /\ last.op = "standalone_function"
    /\ last.args = <<2, 3>>
    /\ last.ret = Ok(5)
    /\ objsA # <<>>
    /\ \E i \in DOMAIN objsB : objsB[i].value # 0

\* C9: another_function() returns None and changes no instance.
C9_AnotherFunctionNoOp ==
    [][ last'.op = "another_function" =>
            /\ last'.ret = None
            /\ objsA' = objsA
            /\ objsB' = objsB
      ]_vars

\* C9 witness: another_function() has been called while instances of both
\* modules exist, the accumulator holding a value other than 0.
C9_Witness ==
    /\ last.op = "another_function"
    /\ objsA # <<>>
    /\ \E i \in DOMAIN objsB : objsB[i].value # 0

\* C10: the value of each accumulator Calculator is the sum of the arguments
\* of the add calls made on it minus the sum of the arguments of the
\* subtract calls made on it, whatever was called on other instances and
\* whichever free functions were called in between.
C10_ValueIsNetSum ==
    \A i \in DOMAIN objsB :
        objsB[i].value = SumArgs(hist, i, "B.add") - SumArgs(hist, i, "B.subtract")

\* C10 witness: two instances, add and subtract called on one, a call made on
\* the other, and a free function called as well.
C10_Witness ==
    \E i \in DOMAIN objsB, j \in DOMAIN objsB :
        /\ i # j
        /\ \E k \in DOMAIN hist : hist[k].self = i /\ hist[k].op = "B.add"
        /\ \E k \in DOMAIN hist : hist[k].self = i /\ hist[k].op = "B.subtract"
        /\ \E k \in DOMAIN hist : hist[k].self = j /\ hist[k].op \in {"B.add", "B.subtract"}
        /\ \E k \in DOMAIN hist : hist[k].self = 0
        /\ objsB[i].value # 0

===========================================================================
